---- MODULE Spec2Model ----
(***************************************************************************)
(* Model of the lead-submission intake handler, functions/api/lead.ts      *)
(* (onRequestPost and its helpers, lines 1-481).  One request is handled   *)
(* per behaviour; the handler is cut at its await points, so that every    *)
(* action is the straight-line code between two awaits.                    *)
(* Spec is the handler with the fields of the submission as validation and *)
(* routing see them; SpecForm is the reading of the form and the           *)
(* composition of the message bodies, on forms given entry by entry.       *)
(***************************************************************************)
EXTENDS Integers, Sequences, FiniteSets, TLC

(***************************************************************************)
(* Bounds.                                                                 *)
(***************************************************************************)
\* longest rating string (in characters) a request carries
MaxRatingLen == 2

(***************************************************************************)
(* Input alphabets.                                                        *)
(***************************************************************************)
\* characters a rating string is built from: two digits and a non-digit
RatingChars == {"3", "5", "x"}

RECURSIVE StringsUpTo(_)
StringsUpTo(n) ==
    IF n = 0 THEN {<<>>}
    ELSE LET shorter == StringsUpTo(n - 1)
         IN  shorter \cup {Append(s, c) : s \in shorter, c \in RatingChars}

Ratings == StringsUpTo(MaxRatingLen)

\* values of the formType field as form.get / trim / toLowerCase deliver it
FormTypes == {"", "early_offer", "fitting", "events", "reviews", "contact"}
Emails == {"", "a@x.com"}
Tokens == {"", "tok", "forged"}

\* HTTP statuses a provider answers with
ProviderStatuses == {200, 403, 500}
\* body shapes of the verification provider's answer
VerifyBodies == {"success_true", "success_false", "success_truthy", "other_json", "non_json"}
\* body shapes of the email provider's answer
SendBodies == {"json", "non_json", "empty"}

NoReply == [net |-> "none", status |-> 0, body |-> "none"]
NetError == [net |-> "error", status |-> 0, body |-> "none"]
VerifyReplies ==
    {NetError} \cup
    {[net |-> "ok", status |-> s, body |-> b] : s \in ProviderStatuses, b \in VerifyBodies}
SendReplies ==
    {NetError} \cup
    {[net |-> "ok", status |-> s, body |-> b] : s \in ProviderStatuses, b \in SendBodies}

\* the mailbox slots of context.env, "" standing for unset
Mailboxes ==
    [TO_EARLY_OFFER : {"", "offer@vb.com"},
     TO_BOOK_FITTING : {"", "fitting@vb.com"},
     TO_EVENT_FLORAL : {"", "events@vb.com"},
     TO_REVIEWS : {"", "reviews@vb.com"},
     TO_FEEDBACK : {"", "feedback@vb.com"},
     TO_DEFAULT : {"", "default@vb.com"}]
NoMailboxes ==
    [TO_EARLY_OFFER |-> "", TO_BOOK_FITTING |-> "", TO_EVENT_FLORAL |-> "",
     TO_REVIEWS |-> "", TO_FEEDBACK |-> "", TO_DEFAULT |-> ""]

\* context.env: the three required keys ("" standing for unset) and the
\* mailbox slots
DefinedEnvs ==
    [defined : {TRUE},
     TURNSTILE_SECRET_KEY : {"", "ts-secret"},
     RESEND_API_KEY : {"", "re-key"},
     RESEND_FROM_EMAIL : {"", "from@vb.com"},
     mail : Mailboxes]
\* context.env missing altogether
UndefinedEnv ==
    [defined |-> FALSE, TURNSTILE_SECRET_KEY |-> "", RESEND_API_KEY |-> "",
     RESEND_FROM_EMAIL |-> "", mail |-> NoMailboxes]
Envs == DefinedEnvs \cup {UndefinedEnv}

\* the preferredDate1..3 / preferredTime1..3 fields of the form, "" standing
\* for a field the form does not carry
NoSlots ==
    <<[date |-> "", time |-> ""], [date |-> "", time |-> ""], [date |-> "", time |-> ""]>>
\* two date/time pairs
TwoPairs ==
    <<[date |-> "2026-04-01", time |-> "10:00"], [date |-> "2026-04-02", time |-> "14:30"],
      [date |-> "", time |-> ""]>>
\* the first pair, no second slot, and a third date without a time
FirstAndThird ==
    <<[date |-> "2026-04-01", time |-> "10:00"], [date |-> "", time |-> ""],
      [date |-> "2026-04-03", time |-> ""]>>

\* the remaining fields of the form and the request headers the handler
\* reads, all absent and all present
NoRest ==
    [firstName |-> "", lastName |-> "", fullName |-> "", name |-> "", phone |-> "",
     message |-> "", source |-> "", eventType |-> "", ip |-> "", userAgent |-> "",
     referer |-> ""]
FullRest ==
    [firstName |-> "Ana", lastName |-> "Li", fullName |-> "Ana Li", name |-> "Ana Li",
     phone |-> "555-0100", message |-> "See you soon", source |-> "google",
     eventType |-> "Quinceanera", ip |-> "203.0.113.9", userAgent |-> "Mozilla/5.0",
     referer |-> "https://verosboutiqueky.com/"]

\* a request whose body decodes as form data: every combination of the
\* fields validation and routing read, and appointment requests that carry
\* preferred slots and the other fields
BareRequests ==
    [accept : {"", "application/json"},
     body : {"form"},
     formType : FormTypes,
     email : Emails,
     token : Tokens,
     rating : Ratings,
     slots : {NoSlots},
     rest : {NoRest}]
FittingRequests ==
    [accept : {"", "application/json"},
     body : {"form"},
     formType : {"fitting"},
     email : Emails,
     token : Tokens,
     rating : {<<>>},
     slots : {TwoPairs, FirstAndThird},
     rest : {FullRest}]
FormRequests == BareRequests \cup FittingRequests
\* a request whose body does not decode as form data
MalformedRequests ==
    [accept : {"", "application/json"},
     body : {"malformed"},
     formType : {""},
     email : {""},
     token : {""},
     rating : {<<>>},
     slots : {NoSlots},
     rest : {NoRest}]
Requests == FormRequests \cup MalformedRequests
NoRequest ==
    [accept |-> "", body |-> "none", formType |-> "", email |-> "",
     token |-> "", rating |-> <<>>, slots |-> NoSlots, rest |-> NoRest]

NoResponse ==
    [status |-> 0, format |-> "none", error |-> "none", details |-> FALSE, shown |-> {},
     msg |-> "none"]

VARIABLES
    pc,             \* position of the handler: idle, parsing, verifying, sending, replying, done
    env,            \* context.env
    req,            \* context.request as it arrived
    wantsJson,      \* lead.ts:26
    formParsed,     \* whether req.formData() resolved (lead.ts:53)
    formType,       \* lead.ts:59
    email,          \* lead.ts:60
    turnstileToken, \* lead.ts:67
    rating,         \* lead.ts:68
    to,             \* lead.ts:111
    calls,          \* outbound fetch calls, in the order they were issued
    response,       \* the Response the handler returned
    form,           \* the FormData of lead.ts:53, its entries in body order
    headers,        \* the request headers of lead.ts:91, 131, 132
    fields,         \* the values the handler reads from form and headers
    text,           \* lead.ts:121 the notification body
    replyText       \* lead.ts:158, 217, 267 the auto-reply body

handlerVars == <<pc, env, req, wantsJson, formParsed, formType, email,
                 turnstileToken, rating, to, calls, response>>
formVars == <<form, headers, fields, text, replyText>>
vars == <<handlerVars, formVars>>

(***************************************************************************)
(* Pure helpers.                                                           *)
(***************************************************************************)
\* value of character c as a digit, 99 when it is none
DigitVal(c) ==
    CASE c = "0" -> 0 [] c = "1" -> 1 [] c = "2" -> 2 [] c = "3" -> 3
      [] c = "4" -> 4 [] c = "5" -> 5 [] c = "6" -> 6 [] c = "7" -> 7
      [] c = "8" -> 8 [] c = "9" -> 9
      [] c \in {"a", "A"} -> 10 [] c \in {"b", "B"} -> 11
      [] c \in {"c", "C"} -> 12 [] c \in {"d", "D"} -> 13
      [] c \in {"e", "E"} -> 14 [] c \in {"f", "F"} -> 15
      [] OTHER -> 99

IsDigit(c, radix) == DigitVal(c) < radix

NaN == [nan |-> TRUE, val |-> 0]

\* value of the longest prefix of digits of s from position i on
RECURSIVE DigitsPrefix(_, _, _, _)
DigitsPrefix(s, i, radix, acc) ==
    IF i > Len(s) \/ ~IsDigit(s[i], radix) THEN acc
    ELSE DigitsPrefix(s, i + 1, radix, acc * radix + DigitVal(s[i]))

\* ECMAScript parseInt(string) without a radix, on a trimmed string: an
\* optional sign, an optional 0x prefix selecting radix 16, then the longest
\* prefix of digits; NaN when there is none
parseInt(s) ==
    LET signed == Len(s) > 0 /\ s[1] \in {"-", "+"}
        neg    == signed /\ s[1] = "-"
        afterS == IF signed THEN 2 ELSE 1
        hex    == /\ Len(s) > afterS
                  /\ s[afterS] = "0"
                  /\ s[afterS + 1] \in {"x", "X"}
        radix  == IF hex THEN 16 ELSE 10
        first  == IF hex THEN afterS + 2 ELSE afterS
    IN  IF first > Len(s) \/ ~IsDigit(s[first], radix) THEN NaN
        ELSE LET v == DigitsPrefix(s, first, radix, 0)
             IN  [nan |-> FALSE, val |-> IF neg THEN 0 - v ELSE v]

\* a comparison with NaN is false
NumGe(p, n) == ~p.nan /\ p.val >= n

\* the exemption for a high rating on any form type
isHighRating_AnyFormType(ft, r) == r # <<>> /\ NumGe(parseInt(r), 4)

\* isHighRating without the numeric comparison
isHighRating_AnyRating(ft, r) == ft = "reviews" /\ r # <<>>

\* lead.ts:76
isHighRating(ft, r) == ft = "reviews" /\ r # <<>> /\ NumGe(parseInt(r), 4)

\* Response.ok
RespOk(status) == status >= 200 /\ status <= 299

\* lead.ts:31 respond(status, payload, fallbackMsg): the payload as JSON
\* (its error code, and whether it has a details field) when the request
\* asked for JSON, with the values the payload carries besides the code,
\* else the page showing fallbackMsg
respond(wj, status, error, details, shown, msg) ==
    IF wj
      THEN [status |-> status, format |-> "json", error |-> error, details |-> details,
            shown |-> shown, msg |-> "none"]
      ELSE [status |-> status, format |-> "html", error |-> "none", details |-> FALSE,
            shown |-> {}, msg |-> msg]

\* lead.ts:314 the success response, a redirect to /?submitted=success
SuccessResponse ==
    [status |-> 303, format |-> "redirect", error |-> "none", details |-> FALSE,
     shown |-> {}, msg |-> "none"]

\* lead.ts:322 the response of the outer catch-all
ServerErrorResponse ==
    [status |-> 500, format |-> "json", error |-> "server_error", details |-> TRUE,
     shown |-> {"TypeError"}, msg |-> "none"]

\* the fallback messages of the error responses (lead.ts:46-151)
FallbackMsg(error) ==
    CASE error = "missing_env" -> "Server misconfigured (missing environment variables)."
      [] error = "invalid_form_data" -> "Invalid form submission."
      [] error = "missing_formtype" -> "Missing form type."
      [] error = "missing_email" -> "Please enter an email."
      [] error = "missing_turnstile" -> "Captcha missing. Please refresh and try again."
      [] error = "turnstile_failed" -> "Captcha failed. Please try again."
      [] error = "unknown_formtype" -> "Unknown form type."
      [] error = "resend_failed" -> "Message failed to send. Please try again."

\* a handler without the catch-all: the exception escapes
outerCatch_Rethrow(fault) == [pc |-> "crashed", response |-> NoResponse]

\* lead.ts:320-326: an exception thrown inside the try block ends the
\* handler with the catch-all response
outerCatch(fault) == [pc |-> "done", response |-> ServerErrorResponse]

\* resolveToEmail answering an unlisted form type at the submitter's address
resolveToEmail_CallerOverride(ft, e) ==
    LET m == e.mail
        Or(a, b) == IF a # "" THEN a ELSE b
    IN  CASE ft = "early_offer" -> Or(m.TO_EARLY_OFFER, m.TO_DEFAULT)
          [] ft = "fitting" -> Or(m.TO_BOOK_FITTING, m.TO_DEFAULT)
          [] ft = "events" -> Or(m.TO_EVENT_FLORAL, m.TO_DEFAULT)
          [] ft = "reviews" -> Or(m.TO_REVIEWS, Or(m.TO_FEEDBACK, m.TO_DEFAULT))
          [] OTHER -> Or(req.email, m.TO_DEFAULT)

\* resolveToEmail without the final fallback for other form types
resolveToEmail_NoFallback(ft, e) ==
    LET m == e.mail
        Or(a, b) == IF a # "" THEN a ELSE b
    IN  CASE ft = "early_offer" -> Or(m.TO_EARLY_OFFER, m.TO_DEFAULT)
          [] ft = "fitting" -> Or(m.TO_BOOK_FITTING, m.TO_DEFAULT)
          [] ft = "events" -> Or(m.TO_EVENT_FLORAL, m.TO_DEFAULT)
          [] ft = "reviews" -> Or(m.TO_REVIEWS, Or(m.TO_FEEDBACK, m.TO_DEFAULT))
          [] OTHER -> ""

\* resolveToEmail with the fitting override alone, no default behind it
resolveToEmail_FittingNoDefault(ft, e) ==
    LET m == e.mail
        Or(a, b) == IF a # "" THEN a ELSE b
    IN  CASE ft = "early_offer" -> Or(m.TO_EARLY_OFFER, m.TO_DEFAULT)
          [] ft = "fitting" -> m.TO_BOOK_FITTING
          [] ft = "events" -> Or(m.TO_EVENT_FLORAL, m.TO_DEFAULT)
          [] ft = "reviews" -> Or(m.TO_REVIEWS, Or(m.TO_FEEDBACK, m.TO_DEFAULT))
          [] OTHER -> m.TO_DEFAULT

\* lead.ts:337
resolveToEmail(ft, e) ==
    LET m == e.mail
        Or(a, b) == IF a # "" THEN a ELSE b
    IN  CASE ft = "early_offer" -> Or(m.TO_EARLY_OFFER, m.TO_DEFAULT)
          [] ft = "fitting" -> Or(m.TO_BOOK_FITTING, m.TO_DEFAULT)
          [] ft = "events" -> Or(m.TO_EVENT_FLORAL, m.TO_DEFAULT)
          [] ft = "reviews" -> Or(m.TO_REVIEWS, Or(m.TO_FEEDBACK, m.TO_DEFAULT))
          [] OTHER -> m.TO_DEFAULT

\* verifyTurnstileSafe without the check of resp.ok
verifyTurnstileSafe_NoStatusCheck(reply) ==
    IF reply.net = "error" THEN FALSE
    ELSE reply.body = "success_true"

\* lead.ts:389 verifyTurnstileSafe, as a function of the provider's reply
verifyTurnstileSafe(reply) ==
    IF reply.net = "error" THEN FALSE
    ELSE IF ~RespOk(reply.status) THEN FALSE
    ELSE reply.body = "success_true"

\* a send that also wants a JSON body in the provider's answer
sendWithResendSafe_RequireJson(reply) ==
    IF reply.net = "error" THEN FALSE
    ELSE RespOk(reply.status) /\ reply.body = "json"

\* lead.ts:422 sendWithResendSafe, as a function of the provider's reply
sendWithResendSafe(reply) ==
    IF reply.net = "error" THEN FALSE
    ELSE RespOk(reply.status)

\* lead.ts:409-418: the details of a failed verification
verifyDetails(reply) ==
    IF reply.net = "error" THEN {"fetch failed"}
    ELSE IF ~RespOk(reply.status) THEN {ToString(reply.status), reply.body}
    ELSE {reply.body}

\* lead.ts:464-470: the details of a failed send
sendDetails(reply) ==
    IF reply.net = "error" THEN {"fetch failed"}
    ELSE {ToString(reply.status), reply.body}

\* the values of the required keys instead of the names of the missing ones
missing_DumpEnv(e) ==
    {e.TURNSTILE_SECRET_KEY, e.RESEND_API_KEY, e.RESEND_FROM_EMAIL}

\* lead.ts:39-40: the names of the required keys that are not set
missing(e) ==
    {k \in {"TURNSTILE_SECRET_KEY", "RESEND_API_KEY", "RESEND_FROM_EMAIL"} : e[k] = ""}

\* lead.ts:97, 139, 183, 251, 300: the credential a call is made with, the
\* secret in the body of a verification (lead.ts:395), the bearer key of a
\* send (lead.ts:452)
credential(op) ==
    IF op = "verify" THEN env.TURNSTILE_SECRET_KEY ELSE env.RESEND_API_KEY

\* a || b on strings
OrElse(a, b) == IF a # "" THEN a ELSE b

\* the characters of a rating as one string
RECURSIVE RatingStr(_)
RatingStr(r) == IF r = <<>> THEN "" ELSE Head(r) \o RatingStr(Tail(r))

\* a body without the phone line when there is no phone
buildTextBody_OmitEmptyPhone(input) ==
    LET Given(x) == x # ""
        names == SelectSeq(<<input.firstName, input.lastName>>, Given)
        nameLine ==
            IF Len(names) = 2 THEN <<"Name: ", names[1], " ", names[2]>>
            ELSE IF Len(names) = 1 THEN <<"Name: ", names[1]>>
            ELSE <<"Name: ", "(not provided)">>
        lines ==
            << <<"Form Type: ", input.formType>>,
               <<"Email: ", input.email>>,
               nameLine >> \o
            (IF input.phone # "" THEN << <<"Phone: ", input.phone>> >> ELSE <<>>)
        review ==
            IF input.formType = "reviews" /\ input.rating # ""
              THEN << <<"Rating: ", input.rating, "/5">> >> \o
                   (IF input.source # ""
                      THEN << <<"Review Source: ", input.source>> >>
                      ELSE <<>>)
              ELSE <<>>
    IN  lines \o review \o
        << <<"">>,
           <<"Message:">>,
           <<OrElse(input.message, "(none)")>>,
           <<"">>,
           <<"Meta:">>,
           <<"IP: ", OrElse(input.ip, "(unknown)")>>,
           <<"User-Agent: ", OrElse(input.userAgent, "(unknown)")>>,
           <<"Referer: ", OrElse(input.referer, "(unknown)")>> >>

\* lead.ts:346-387 buildTextBody: the lines of the notification body, each
\* line the sequence of the pieces its template joins
buildTextBody(input) ==
    LET Given(x) == x # ""
        names == SelectSeq(<<input.firstName, input.lastName>>, Given)
        nameLine ==
            IF Len(names) = 2 THEN <<"Name: ", names[1], " ", names[2]>>
            ELSE IF Len(names) = 1 THEN <<"Name: ", names[1]>>
            ELSE <<"Name: ", "(not provided)">>
        lines ==
            << <<"Form Type: ", input.formType>>,
               <<"Email: ", input.email>>,
               nameLine,
               <<"Phone: ", OrElse(input.phone, "(not provided)")>> >>
        review ==
            IF input.formType = "reviews" /\ input.rating # ""
              THEN << <<"Rating: ", input.rating, "/5">> >> \o
                   (IF input.source # ""
                      THEN << <<"Review Source: ", input.source>> >>
                      ELSE <<>>)
              ELSE <<>>
    IN  lines \o review \o
        << <<"">>,
           <<"Message:">>,
           <<OrElse(input.message, "(none)")>>,
           <<"">>,
           <<"Meta:">>,
           <<"IP: ", OrElse(input.ip, "(unknown)")>>,
           <<"User-Agent: ", OrElse(input.userAgent, "(unknown)")>>,
           <<"Referer: ", OrElse(input.referer, "(unknown)")>> >>

\* lead.ts:120-135: the notification body of request r
notificationText(r) ==
    buildTextBody([formType |-> r.formType, email |-> r.email,
                   firstName |-> r.rest.firstName, lastName |-> r.rest.lastName,
                   phone |-> r.rest.phone, message |-> r.rest.message,
                   ip |-> r.rest.ip, userAgent |-> r.rest.userAgent,
                   referer |-> r.rest.referer, rating |-> RatingStr(r.rating),
                   source |-> r.rest.source, name |-> r.rest.name])

\* an entry for every slot with a date or a time
preferredDates_KeepTimeOnly(slots) ==
    LET entry(k) ==
            IF slots[k].date # "" \/ slots[k].time # ""
              THEN << <<slots[k].date, " at ", OrElse(slots[k].time, "(no time)")>> >>
              ELSE <<>>
    IN  entry(1) \o entry(2) \o entry(3)

\* lead.ts:200-215: one entry per slot whose date is given, in slot order
preferredDates(slots) ==
    LET entry(k) ==
            IF slots[k].date # ""
              THEN << <<slots[k].date, " at ", OrElse(slots[k].time, "(no time)")>> >>
              ELSE <<>>
    IN  entry(1) \o entry(2) \o entry(3)

\* lead.ts:232: the lines below "Preferred Dates & Times:"
optionLines(dates) ==
    IF Len(dates) > 0
      THEN [i \in 1..Len(dates) |-> <<"  Option ", ToString(i), ": ">> \o dates[i]]
      ELSE << <<"  (not provided)">> >>

\* lead.ts:158-177, 217-247, 267-296: the lines of the auto-reply of
\* request r that carry a field of the submission, with the headings above
\* them; the fixed paragraphs around them are left out
autoReplyText(r) ==
    CASE r.formType = "early_offer" ->
           << IF r.rest.firstName # "" THEN <<"Hi", " ", r.rest.firstName, "!">>
                                       ELSE <<"Hi", "!">> >>
      [] r.formType = "fitting" ->
           << <<"Hi ", OrElse(r.rest.fullName, "there"), "!">>,
              <<"--- YOUR REQUEST ---">>,
              <<"Full Name: ", OrElse(r.rest.fullName, "(not provided)")>>,
              <<"Email: ", r.email>>,
              <<"Phone: ", OrElse(r.rest.phone, "(not provided)")>>,
              <<"Dress Type: ", OrElse(r.rest.eventType, "(not specified)")>>,
              <<"Preferred Dates & Times:">> >>
           \o optionLines(preferredDates(r.slots)) \o
           << <<"Additional Notes:">>,
              <<OrElse(r.rest.message, "(none)")>> >>
      [] r.formType = "events" ->
           << <<"Hi ", OrElse(r.rest.name, "there"), "!">>,
              <<"--- YOUR REQUEST ---">>,
              <<"Full Name: ", OrElse(r.rest.name, "(not provided)")>>,
              <<"Email: ", r.email>>,
              <<"Phone: ", OrElse(r.rest.phone, "(not provided)")>>,
              <<"Consultation Details:">>,
              <<OrElse(r.rest.message, "(none)")>> >>
      [] OTHER -> <<>>

\* an auto-reply block for reviews as well
hasAutoReply_WithReviews(ft) == ft \in {"early_offer", "fitting", "events", "reviews"}

\* formTypes with an auto-reply block (lead.ts:156, 198, 265)
hasAutoReply(ft) == ft \in {"early_offer", "fitting", "events"}

\* the compliance headers attached to every message
emailHeaders_Always(isTransactional) == {"List-Unsubscribe", "X-Priority"}

\* lead.ts:441-447: the headers sendWithResendSafe adds to the message
emailHeaders(isTransactional) ==
    IF isTransactional THEN {"List-Unsubscribe", "X-Priority"} ELSE {}

\* lead.ts:400-404, 449-456: the abort signal a fetch is given; both init
\* objects hold method, headers and body only
fetchSignal(op) == "none"

\* an outbound call just issued: its kind, the recipient and the text of
\* the message, its credential, its abort signal, and whether the message
\* carries the List-Unsubscribe header
Call(op, dest, body, isTransactional) ==
    [op |-> op, to |-> dest, text |-> body, credential |-> credential(op),
     signal |-> fetchSignal(op),
     unsub |-> "List-Unsubscribe" \in emailHeaders(isTransactional),
     result |-> "pending", reply |-> NoReply]

Settle(cs, reply, ok) ==
    [cs EXCEPT ![Len(cs)].reply = reply,
               ![Len(cs)].result = IF ok THEN "ok" ELSE "failed"]

\* the request headers the handler reads, "" standing for an absent header
NoHeaders == [ip |-> "", userAgent |-> "", referer |-> ""]
\* no field read yet
NoFields == [formType |-> "none"]

(***************************************************************************)
(* Initial state: the function is deployed with some configuration and no  *)
(* request has arrived.                                                    *)
(***************************************************************************)
Init ==
    /\ pc = "idle"
    /\ env \in Envs
    /\ req = NoRequest
    /\ wantsJson = FALSE
    /\ formParsed = FALSE
    /\ formType = ""
    /\ email = ""
    /\ turnstileToken = ""
    /\ rating = <<>>
    /\ to = ""
    /\ calls = <<>>
    /\ response = NoResponse
    /\ form = <<>>
    /\ headers = NoHeaders
    /\ fields = NoFields
    /\ text = <<>>
    /\ replyText = <<>>

\* return r
Finish(r) ==
    /\ pc' = "done"
    /\ response' = r

\* the env validation without TURNSTILE_SECRET_KEY
missingEnv_NoSecret(e) ==
    e.RESEND_API_KEY = "" \/ e.RESEND_FROM_EMAIL = ""

\* the env validation without RESEND_FROM_EMAIL
missingEnv_NoFromEmail(e) ==
    e.TURNSTILE_SECRET_KEY = "" \/ e.RESEND_API_KEY = ""

\* lead.ts:39-40
missingEnv(e) ==
    e.TURNSTILE_SECRET_KEY = "" \/ e.RESEND_API_KEY = "" \/ e.RESEND_FROM_EMAIL = ""

(***************************************************************************)
(* lead.ts:6-53: a request arrives; wantsJson, the env validation, and the *)
(* call of req.formData().  Reading a key of a missing env throws, which   *)
(* the outer catch turns into the server_error response.                   *)
(***************************************************************************)
Receive ==
    /\ pc = "idle"
    /\ \E r \in Requests :
        /\ req' = r
        /\ wantsJson' = (r.accept = "application/json")
        /\ IF ~env.defined
             THEN LET caught == outerCatch("TypeError")
                  IN  pc' = caught.pc /\ response' = caught.response
           ELSE IF missingEnv(env)
             THEN Finish(respond(wantsJson', 500, "missing_env", FALSE, missing(env),
                                 FallbackMsg("missing_env")))
           ELSE pc' = "parsing" /\ UNCHANGED response
    /\ UNCHANGED <<env, formParsed, formType, email, turnstileToken, rating, to, calls>>
    /\ UNCHANGED formVars

(***************************************************************************)
(* lead.ts:110-145: route the recipient, compose, issue the primary send.  *)
(* cs is the list of calls made so far.                                    *)
(***************************************************************************)
RouteAndSend(ft, cs) ==
    LET dest == resolveToEmail(ft, env)
    IN  /\ to' = dest
        /\ IF dest = ""
             THEN /\ calls' = cs
                  /\ Finish(respond(wantsJson, 400, "unknown_formtype", FALSE, {ft},
                                      FallbackMsg("unknown_formtype")))
             ELSE /\ calls' = Append(cs, Call("primary", dest, notificationText(req), FALSE))
                  /\ pc' = "sending"
                  /\ UNCHANGED response

\* validation that looks at the token before the email
validate_TokenFirst(ft, em, tok, r) ==
    IF ft = "" THEN "missing_formtype"
    ELSE IF ~isHighRating(ft, r) /\ tok = "" THEN "missing_turnstile"
    ELSE IF ~isHighRating(ft, r) /\ em = "" THEN "missing_email"
    ELSE "none"

\* validation reporting a missing token with the code of a missing email
validate_SharedCode(ft, em, tok, r) ==
    IF ft = "" THEN "missing_formtype"
    ELSE IF ~isHighRating(ft, r) /\ em = "" THEN "missing_email"
    ELSE IF ~isHighRating(ft, r) /\ tok = "" THEN "missing_email"
    ELSE "none"

\* validation without the email check
validate_NoEmailCheck(ft, em, tok, r) ==
    IF ft = "" THEN "missing_formtype"
    ELSE IF ~isHighRating(ft, r) /\ tok = "" THEN "missing_turnstile"
    ELSE "none"

\* lead.ts:71-88: the error code validation rejects with, "none" when it passes
validate(ft, em, tok, r) ==
    IF ft = "" THEN "missing_formtype"
    ELSE IF ~isHighRating(ft, r) /\ em = "" THEN "missing_email"
    ELSE IF ~isHighRating(ft, r) /\ tok = "" THEN "missing_turnstile"
    ELSE "none"

\* verification whatever the token
needsVerify_Always(ft, tok, r) == TRUE

\* verification skipped for every exempt submission
needsVerify_SkipExempt(ft, tok, r) == tok # "" /\ ~isHighRating(ft, r)

\* lead.ts:94: the verification call is made when a token is present
needsVerify(ft, tok, r) == tok # ""

\* req.formData() without its own try: the rejection reaches the outer catch
formDataCatch_Rethrow(wj) == ServerErrorResponse

\* lead.ts:52-56: the response when req.formData() rejects
formDataCatch(wj) ==
    respond(wj, 400, "invalid_form_data", FALSE, {}, FallbackMsg("invalid_form_data"))

(***************************************************************************)
(* lead.ts:53-145: req.formData() settles; field extraction, validation,   *)
(* then the call of verifyTurnstileSafe when a token is present, else      *)
(* routing and the primary send.                                           *)
(***************************************************************************)
ParseForm ==
    /\ pc = "parsing"
    /\ IF req.body = "malformed"
         THEN /\ Finish(formDataCatch(wantsJson))
              /\ UNCHANGED <<formParsed, formType, email, turnstileToken, rating, to, calls>>
         ELSE /\ formParsed' = TRUE
              /\ formType' = req.formType
              /\ email' = req.email
              /\ turnstileToken' = req.token
              /\ rating' = req.rating
              /\ LET verdict == validate(req.formType, req.email, req.token, req.rating)
                 IN  IF verdict # "none"
                       THEN /\ Finish(respond(wantsJson, 400, verdict, FALSE, {},
                                              FallbackMsg(verdict)))
                            /\ UNCHANGED <<to, calls>>
                     ELSE IF needsVerify(req.formType, req.token, req.rating)
                       THEN /\ calls' = Append(calls, Call("verify", "", <<>>, FALSE))
                            /\ pc' = "verifying"
                            /\ UNCHANGED <<to, response>>
                     ELSE RouteAndSend(req.formType, calls)
    /\ UNCHANGED <<env, req, wantsJson>>
    /\ UNCHANGED formVars

\* a verification whose outcome is not looked at
afterVerify_AlwaysRoute(ok) == "route"

\* lead.ts:101: what follows a verification with outcome ok
afterVerify(ok) == IF ~ok THEN "fail" ELSE "route"

(***************************************************************************)
(* lead.ts:95-145: the verification provider answers (or the fetch         *)
(* throws); on success the handler goes on to route and send.              *)
(***************************************************************************)
VerifyReturn ==
    /\ pc = "verifying"
    /\ \E reply \in VerifyReplies :
        LET ok == verifyTurnstileSafe(reply)
            settled == Settle(calls, reply, ok)
        IN  IF afterVerify(ok) = "fail"
              THEN /\ calls' = settled
                   /\ Finish(respond(wantsJson, 400, "turnstile_failed", TRUE,
                                     verifyDetails(reply),
                                     FallbackMsg("turnstile_failed")))
                   /\ UNCHANGED to
              ELSE RouteAndSend(formType, settled)
    /\ UNCHANGED <<env, req, wantsJson, formParsed, formType, email, turnstileToken, rating>>
    /\ UNCHANGED formVars

\* a second send after a failed primary send
afterPrimary_SecondSendOnFail(ok, ft) ==
    IF ~ok THEN "autoreply"
    ELSE IF hasAutoReply(ft) THEN "autoreply"
    ELSE "success"

\* the auto-reply issued without looking at the outcome of the primary send
afterPrimary_ReplyAnyway(ok, ft) ==
    IF hasAutoReply(ft) THEN "autoreply"
    ELSE IF ~ok THEN "fail"
    ELSE "success"

\* lead.ts:147-319: what follows a primary send with outcome ok
afterPrimary(ok, ft) ==
    IF ~ok THEN "fail"
    ELSE IF hasAutoReply(ft) THEN "autoreply"
    ELSE "success"

(***************************************************************************)
(* lead.ts:138-319: the email provider answers the primary send; on        *)
(* success the handler issues the auto-reply of the category, if any.      *)
(***************************************************************************)
SendReturn ==
    /\ pc = "sending"
    /\ \E reply \in SendReplies :
        LET ok == sendWithResendSafe(reply)
            settled == Settle(calls, reply, ok)
            step == afterPrimary(ok, formType)
        IN  CASE step = "fail" ->
                   /\ calls' = settled
                   /\ Finish(respond(wantsJson, 502, "resend_failed", TRUE,
                                     sendDetails(reply),
                                     FallbackMsg("resend_failed")))
              [] step = "autoreply" ->
                   /\ calls' = Append(settled, Call("autoreply", email, autoReplyText(req), TRUE))
                   /\ pc' = "replying"
                   /\ UNCHANGED response
              [] OTHER ->
                   /\ calls' = settled
                   /\ Finish(SuccessResponse)
    /\ UNCHANGED <<env, req, wantsJson, formParsed, formType, email, turnstileToken, rating, to>>
    /\ UNCHANGED formVars

\* a failed auto-reply reported like a failed primary send
afterAutoReply_Strict(ok) ==
    IF ok THEN SuccessResponse
    ELSE [status |-> 502, format |-> "html", error |-> "none", details |-> FALSE,
          shown |-> {}, msg |-> FallbackMsg("resend_failed")]

\* lead.ts:192-194, 259-261, 308-310: the response after an auto-reply with
\* outcome ok
afterAutoReply(ok) == SuccessResponse

(***************************************************************************)
(* lead.ts:181-319: the email provider answers the auto-reply; its outcome *)
(* is ignored.                                                             *)
(***************************************************************************)
AutoReplyReturn ==
    /\ pc = "replying"
    /\ \E reply \in SendReplies :
        LET ok == sendWithResendSafe(reply)
        IN  /\ calls' = Settle(calls, reply, ok)
            /\ Finish(afterAutoReply(ok))
    /\ UNCHANGED <<env, req, wantsJson, formParsed, formType, email, turnstileToken, rating, to>>
    /\ UNCHANGED formVars

Next ==
    \/ Receive
    \/ ParseForm
    \/ VerifyReturn
    \/ SendReturn
    \/ AutoReplyReturn

Spec == Init /\ [][Next]_vars

(***************************************************************************)
(* The handler's reading of the form and its composition of the two        *)
(* message bodies, on forms with repeated keys, padded values and every    *)
(* combination of the optional fields.  A form is the sequence of its      *)
(* entries <<key, value>> in body order.                                   *)
(***************************************************************************)
\* most entries of a form built freely from SampleEntries
MaxEntries == 2

\* the values without surrounding whitespace that forms and headers carry
Words ==
    {"", "fitting", "Reviews", "reviews", "contact", "a@x.com", "B@X.com", "b@x.com",
     "2026-04-01", "2026-04-02", "2026-04-03", "10:00", "14:30", "9:15",
     "Quinceanera", "Ana", "Li", "555-0100", "See you soon", "5", "google"}

\* w with a blank before it and a blank after it, as asked
Pad(l, w, r) == (IF l THEN " " ELSE "") \o w \o (IF r THEN " " ELSE "")

\* String.prototype.trim: the word s is a padding of
trim(s) ==
    LET cores == {w \in Words : \E l, r \in BOOLEAN : s = Pad(l, w, r)}
    IN  IF cores = {} THEN s ELSE CHOOSE w \in cores : TRUE

\* String.prototype.toLowerCase on the words above
toLowerCase(s) ==
    CASE s = "Reviews" -> "reviews"
      [] s = "B@X.com" -> "b@x.com"
      [] OTHER -> s

\* the positions of the entries of form f with this key
Occurrences(f, key) == {i \in DOMAIN f : f[i][1] = key}

\* a get that returns the value of the last entry with the key
get_Last(f, key) ==
    LET occ == Occurrences(f, key)
    IN  IF occ = {} THEN ""
        ELSE f[CHOOSE i \in occ : \A j \in occ : j <= i][2]

\* FormData.get: the value of the first entry with the key, null (which
\* every use treats like "") when there is none
get(f, key) ==
    LET occ == Occurrences(f, key)
    IN  IF occ = {} THEN ""
        ELSE f[CHOOSE i \in occ : \A j \in occ : i <= j][2]

\* lead.ts:59-69: String(form.get(key) || "").trim()
field(f, key) == trim(get(f, key))

\* lead.ts:59-69, 91, 131-132, 201-213, 229: the values the handler reads:
\* the fields extracted at the top, trimmed, formType and email lowercased
\* as well; the slot fields and eventType, read from the form where the
\* auto-reply is composed; and the three headers
extractFields(f, h) ==
    [formType |-> toLowerCase(field(f, "formType")),
     email |-> toLowerCase(field(f, "email")),
     token |-> field(f, "cf-turnstile-response"),
     rating |-> field(f, "rating"),
     slots |-> [k \in 1..3 |->
                  [date |-> get(f, "preferredDate" \o ToString(k)),
                   time |-> get(f, "preferredTime" \o ToString(k))]],
     rest |-> [firstName |-> field(f, "firstName"), lastName |-> field(f, "lastName"),
               fullName |-> field(f, "fullName"), name |-> field(f, "name"),
               phone |-> field(f, "phone"), message |-> field(f, "message"),
               source |-> field(f, "source"), eventType |-> get(f, "eventType"),
               ip |-> h.ip, userAgent |-> h.userAgent, referer |-> h.referer]]

\* entries that forms of up to MaxEntries entries are built from
SampleEntries ==
    {<<"formType", "fitting">>, <<"formType", " Reviews ">>,
     <<"email", "a@x.com">>, <<"email", " B@X.com ">>,
     <<"preferredDate1", " 2026-04-01">>, <<"preferredDate1", " ">>,
     <<"preferredTime1", "10:00 ">>, <<"eventType", " Quinceanera ">>}
SeqForms == UNION {[1..n -> SampleEntries] : n \in 0..MaxEntries}

\* the date and the time a form gives for slot k
SlotDate(k) == CASE k = 1 -> "2026-04-01" [] k = 2 -> "2026-04-02" [] k = 3 -> "2026-04-03"
SlotTime(k) == CASE k = 1 -> "10:00" [] k = 2 -> "14:30" [] k = 3 -> "9:15"

\* the appointment request with a date for the slots in D and a time for
\* the slots in T
SlotForm(D, T) ==
    LET entries(k) ==
            (IF k \in D THEN << <<"preferredDate" \o ToString(k), SlotDate(k)>> >> ELSE <<>>)
            \o
            (IF k \in T THEN << <<"preferredTime" \o ToString(k), SlotTime(k)>> >> ELSE <<>>)
    IN  << <<"formType", "fitting">>, <<"email", "a@x.com">> >>
        \o entries(1) \o entries(2) \o entries(3)
SlotForms == {SlotForm(D, T) : D \in SUBSET (1..3), T \in SUBSET (1..3)}

\* the submission of category ft that carries the optional fields in P
BodyForm(ft, P) ==
    LET entry(key, value) == IF key \in P THEN << <<key, value>> >> ELSE <<>>
    IN  << <<"formType", ft>>, <<"email", "a@x.com">> >>
        \o entry("firstName", "Ana") \o entry("lastName", "Li")
        \o entry("phone", "555-0100") \o entry("message", "See you soon")
        \o entry("rating", "5") \o entry("source", "google")
BodyForms ==
    {BodyForm(ft, P) :
        ft \in {"reviews", "contact"},
        P \in SUBSET {"firstName", "lastName", "phone", "message", "rating", "source"}}

HeaderSets ==
    [ip : {"", "203.0.113.9"},
     userAgent : {"", "Mozilla/5.0"},
     referer : {"", "https://verosboutiqueky.com/"}]

\* the fields have been read
Extracted == fields.formType # "none"

InitForm ==
    /\ pc = "idle"
    /\ env = UndefinedEnv
    /\ req = NoRequest
    /\ wantsJson = FALSE
    /\ formParsed = FALSE
    /\ formType = ""
    /\ email = ""
    /\ turnstileToken = ""
    /\ rating = <<>>
    /\ to = ""
    /\ calls = <<>>
    /\ response = NoResponse
    /\ \/ form \in SeqForms \cup SlotForms /\ headers = NoHeaders
       \/ form \in BodyForms /\ headers \in HeaderSets
    /\ fields = NoFields
    /\ text = <<>>
    /\ replyText = <<>>

\* lead.ts:59-69 and the later reads of form and headers
ExtractFields ==
    /\ ~Extracted
    /\ fields' = extractFields(form, headers)
    /\ UNCHANGED <<form, headers, text, replyText>>
    /\ UNCHANGED handlerVars

\* lead.ts:121-135
ComposeNotification ==
    /\ Extracted
    /\ text = <<>>
    /\ text' = buildTextBody([formType |-> fields.formType, email |-> fields.email,
                              firstName |-> fields.rest.firstName,
                              lastName |-> fields.rest.lastName,
                              phone |-> fields.rest.phone,
                              message |-> fields.rest.message,
                              ip |-> fields.rest.ip,
                              userAgent |-> fields.rest.userAgent,
                              referer |-> fields.rest.referer,
                              rating |-> fields.rating,
                              source |-> fields.rest.source,
                              name |-> fields.rest.name])
    /\ UNCHANGED <<form, headers, fields, replyText>>
    /\ UNCHANGED handlerVars

\* lead.ts:156-177, 198-247, 265-296
ComposeAutoReply ==
    /\ Extracted
    /\ hasAutoReply(fields.formType)
    /\ replyText = <<>>
    /\ replyText' = autoReplyText(fields)
    /\ UNCHANGED <<form, headers, fields, text>>
    /\ UNCHANGED handlerVars

NextForm ==
    \/ ExtractFields
    \/ ComposeNotification
    \/ ComposeAutoReply

SpecForm == InitForm /\ [][NextForm]_vars

(***************************************************************************)
(* Properties.                                                             *)
(***************************************************************************)
TypeOK ==
    /\ pc \in {"idle", "parsing", "verifying", "sending", "replying", "done", "crashed"}
    /\ env \in Envs
    /\ req \in Requests \cup {NoRequest}
    /\ wantsJson \in BOOLEAN
    /\ formParsed \in BOOLEAN
    /\ Len(calls) <= 3

\* positions in calls of the calls of kind op
CallsOf(op) == {i \in DOMAIN calls : calls[i].op = op}

\* all three required keys of env are set
ConfigComplete ==
    /\ env.defined
    /\ env.TURNSTILE_SECRET_KEY # ""
    /\ env.RESEND_API_KEY # ""
    /\ env.RESEND_FROM_EMAIL # ""

\* the response is the error response with this code, in either format
IsError(status, error) ==
    /\ response.status = status
    /\ IF wantsJson
         THEN response.format = "json" /\ response.error = error
         ELSE response.format = "html" /\ response.msg = FallbackMsg(error)

\* the request at hand is not a high-rating review and lacks the email or
\* the token
C1_Case ==
    /\ pc # "idle"
    /\ ~isHighRating(req.formType, req.rating)
    /\ (req.email = "" \/ req.token = "")

\* C1: a request that is not a high-rating review and has an empty email or
\* an empty token never has an outbound call made, and once the handler has
\* read its submission the request has ended in a 400 rejection.
C1_RejectedBeforeAnyCall ==
    /\ C1_Case => calls = <<>>
    /\ (C1_Case /\ formParsed) =>
          /\ pc = "done"
          /\ response.status = 400
          /\ response.format \in {"json", "html"}

C1_Witness ==
    /\ pc = "done"
    /\ formParsed
    /\ formType = "fitting"
    /\ email = ""
    /\ turnstileToken = "tok"
    /\ IsError(400, "missing_email")
    /\ calls = <<>>

\* C2: a primary dispatch call is issued only after every verification call
\* has returned Verified, or with no verification call at all when the
\* submission is a high-rating review; no dispatch call exists while a
\* verification call is pending or after one was rejected.
C2_DispatchAfterVerified ==
    \A i \in CallsOf("primary") :
        /\ \A j \in CallsOf("verify") : j < i /\ calls[j].result = "ok"
        /\ CallsOf("verify") = {} =>
              /\ formType = "reviews"
              /\ rating # <<>>
              /\ NumGe(parseInt(rating), 4)

C2_Witness ==
    /\ Len(calls) >= 2
    /\ calls[1].op = "verify"
    /\ calls[1].result = "ok"
    /\ calls[2].op = "primary"
    /\ formType = "events"

\* the rating reads as the integer n
RatingIs(n) == ~parseInt(rating).nan /\ parseInt(rating).val = n

\* a review with rating 4 or 5, no email and no token, and a mailbox that
\* resolves
C3_Case ==
    /\ formParsed
    /\ formType = "reviews"
    /\ (RatingIs(4) \/ RatingIs(5))
    /\ email = ""
    /\ turnstileToken = ""
    /\ resolveToEmail(formType, env) # ""

\* C3: a review with rating 4 or 5 and neither email nor token never has the
\* verifier invoked, has the primary dispatch invoked exactly once, and gets
\* the success response when the provider accepts the message.
C3_ExemptReviewDispatched ==
    C3_Case =>
        /\ CallsOf("verify") = {}
        /\ calls # <<>>
        /\ Cardinality(CallsOf("primary")) = 1
        /\ Len(calls) = 1
        /\ (pc = "done" /\ calls[1].result = "ok") => response = SuccessResponse
        /\ pc = "done" => calls[1].result # "pending"

C3_Witness ==
    /\ pc = "done"
    /\ C3_Case
    /\ rating = <<"5">>
    /\ calls[1].op = "primary"
    /\ calls[1].result = "ok"
    /\ response = SuccessResponse

\* a review whose rating is empty, does not parse, or is 1, 2 or 3
C4_Case ==
    /\ formParsed
    /\ formType = "reviews"
    /\ \/ rating = <<>>
       \/ parseInt(rating).nan
       \/ RatingIs(1) \/ RatingIs(2) \/ RatingIs(3)

\* C4: a review whose rating is empty, unparsable or in 1..3 is rejected with
\* missing_email when the email is empty, with missing_turnstile when the
\* email is present and the token empty, and no outbound call is made.
C4_LowRatingMandatory ==
    C4_Case =>
        /\ email = "" => pc = "done" /\ IsError(400, "missing_email") /\ calls = <<>>
        /\ (email # "" /\ turnstileToken = "") =>
              pc = "done" /\ IsError(400, "missing_turnstile") /\ calls = <<>>

C4_Witness ==
    /\ C4_Case
    /\ rating = <<"3">>
    /\ email # ""
    /\ turnstileToken = ""
    /\ IsError(400, "missing_turnstile")

\* C5: a settled verification call is Verified exactly when the provider
\* answered with a success status and a body whose success field is true;
\* after a Rejected verification the handler has answered 400
\* turnstile_failed and the verification call is the last call made.
C5_VerifiedOnlyOnSuccess ==
    \A i \in CallsOf("verify") :
        /\ calls[i].result = "ok" <=>
              /\ calls[i].reply.net = "ok"
              /\ calls[i].reply.status >= 200
              /\ calls[i].reply.status <= 299
              /\ calls[i].reply.body = "success_true"
        /\ calls[i].result = "failed" =>
              /\ pc = "done"
              /\ IsError(400, "turnstile_failed")
              /\ i = Len(calls)
              /\ CallsOf("primary") \cup CallsOf("autoreply") = {}

C5_Witness ==
    /\ pc = "done"
    /\ calls # <<>>
    /\ calls[1].op = "verify"
    /\ calls[1].reply = [net |-> "ok", status |-> 500, body |-> "success_true"]
    /\ calls[1].result = "failed"
    /\ IsError(400, "turnstile_failed")

\* validation exempted the submission: a review whose rating reads as 4 or more
Exempted ==
    /\ formParsed
    /\ formType = "reviews"
    /\ rating # <<>>
    /\ NumGe(parseInt(rating), 4)

\* C6 (as stated): for every exempted submission, with or without a token, no
\* verification call is made and the request does not end in turnstile_failed.
C6_Original ==
    Exempted =>
        /\ CallsOf("verify") = {}
        /\ ~(pc = "done" /\ IsError(400, "turnstile_failed"))

\* C6 (amended): for every exempted submission that supplies no token, no
\* verification call is made and the request does not end in
\* turnstile_failed; an exempted submission that supplies a token has it
\* verified before anything else is sent.
C6_SkippedWithoutToken ==
    Exempted =>
        /\ turnstileToken = "" =>
              /\ CallsOf("verify") = {}
              /\ ~(pc = "done" /\ IsError(400, "turnstile_failed"))
        /\ turnstileToken # "" =>
              /\ calls # <<>>
              /\ calls[1].op = "verify"

C6_Witness ==
    /\ pc = "done"
    /\ Exempted
    /\ turnstileToken = ""
    /\ email = "a@x.com"
    /\ calls # <<>>
    /\ CallsOf("verify") = {}
    /\ response = SuccessResponse

\* C7: an auto-reply call directly follows a primary call that returned
\* success; after a failed primary call the request has failed with
\* resend_failed and holds no auto-reply call.
C7_AutoReplyAfterPrimary ==
    /\ \A i \in CallsOf("autoreply") :
          /\ i > 1
          /\ calls[i - 1].op = "primary"
          /\ calls[i - 1].result = "ok"
    /\ \A i \in CallsOf("primary") :
          calls[i].result = "failed" =>
              /\ pc = "done"
              /\ IsError(502, "resend_failed")
              /\ CallsOf("autoreply") = {}

C7_Witness ==
    /\ pc = "done"
    /\ formType = "fitting"
    /\ Len(calls) = 2
    /\ calls[2].op = "primary"
    /\ calls[2].reply = NetError
    /\ calls[2].result = "failed"
    /\ IsError(502, "resend_failed")

\* C8: a finished request whose primary dispatch succeeded has the success
\* response, whatever the outcome of the auto-reply call.
C8_AutoReplyOutcomeIgnored ==
    (pc = "done" /\ \E i \in CallsOf("primary") : calls[i].result = "ok") =>
        response = SuccessResponse

C8_Witness ==
    /\ pc = "done"
    /\ Len(calls) = 3
    /\ calls[2].op = "primary"
    /\ calls[2].result = "ok"
    /\ calls[3].op = "autoreply"
    /\ calls[3].reply.status = 500
    /\ calls[3].result = "failed"
    /\ response = SuccessResponse

\* C9: the success response is returned only when the configuration is
\* complete, the body was parsed, validation passed, verification was
\* Verified or exempt, a mailbox was resolved and exactly one primary call was
\* made and returned success; every other finished request has an error
\* response.
C9_SuccessOnlyAfterAllStages ==
    /\ response = SuccessResponse =>
          /\ pc = "done"
          /\ ConfigComplete
          /\ req.body = "form"
          /\ formParsed
          /\ formType # ""
          /\ Exempted \/ (email # "" /\ turnstileToken # "")
          /\ \/ CallsOf("verify") = {} /\ Exempted
             \/ \E j \in CallsOf("verify") : calls[j].result = "ok"
          /\ to # ""
          /\ Cardinality(CallsOf("primary")) = 1
          /\ \A i \in CallsOf("primary") : calls[i].result = "ok" /\ calls[i].to = to
    /\ (pc = "done" /\ response # SuccessResponse) =>
          /\ response.status \in {400, 500, 502}
          /\ response.format \in {"json", "html"}

C9_Witness ==
    /\ response = SuccessResponse
    /\ formType = "early_offer"
    /\ Len(calls) = 3
    /\ calls[1].result = "ok"
    /\ calls[2].result = "ok"

\* C10: no exception escapes the handler: a finished request always has a
\* well-formed response, a transport error at an outbound call is a failed
\* outcome of that call, and a fault reaching the outer catch gives a 500.
C10_NoFailureEscapes ==
    /\ pc # "crashed"
    /\ pc = "done" =>
          /\ response.status \in {303, 400, 500, 502}
          /\ response.format \in {"json", "html", "redirect"}
    /\ \A i \in DOMAIN calls : calls[i].reply.net = "error" => calls[i].result = "failed"
    /\ (pc = "done" /\ ~env.defined) => response.status = 500
    /\ (pc = "done" /\ req.body = "malformed" /\ ConfigComplete) => response.status = 400

C10_Witness ==
    /\ pc = "done"
    /\ ~env.defined
    /\ req.accept = ""
    /\ response = ServerErrorResponse

\* the form types resolveToEmail has a branch for
Recognized == {"early_offer", "fitting", "events", "reviews"}

\* the handler came past validation and verification: it has routed
Routed ==
    /\ formParsed
    /\ formType # ""
    /\ \/ CallsOf("verify") = {} /\ turnstileToken = "" /\ Exempted
       \/ \E j \in CallsOf("verify") : calls[j].result = "ok"

\* the mailbox slot of a recognized form type is unset
OverrideUnset ==
    CASE formType = "early_offer" -> env.mail.TO_EARLY_OFFER = ""
      [] formType = "fitting" -> env.mail.TO_BOOK_FITTING = ""
      [] formType = "events" -> env.mail.TO_EVENT_FLORAL = ""
      [] formType = "reviews" -> env.mail.TO_REVIEWS = "" /\ env.mail.TO_FEEDBACK = ""
      [] OTHER -> TRUE

\* C11 (as stated): a submission with an unrecognized formType never has a
\* dispatch call made, whatever the mailbox configuration, and ends in the
\* unknown_formtype fault once it is routed.
C11_Original ==
    (formParsed /\ formType # "" /\ formType \notin Recognized) =>
        /\ CallsOf("primary") = {}
        /\ Routed => pc = "done" /\ IsError(400, "unknown_formtype")

\* C11 (amended): a submission with an unrecognized formType ends in the
\* unknown_formtype fault with no dispatch call when TO_DEFAULT is unset;
\* when TO_DEFAULT is set it is dispatched to the default mailbox.
C11_UnrecognizedNeedsDefault ==
    (formParsed /\ formType # "" /\ formType \notin Recognized) =>
        /\ env.mail.TO_DEFAULT = "" =>
              /\ CallsOf("primary") \cup CallsOf("autoreply") = {}
              /\ Routed => pc = "done" /\ IsError(400, "unknown_formtype")
        /\ env.mail.TO_DEFAULT # "" =>
              /\ ~IsError(400, "unknown_formtype")
              /\ Routed => CallsOf("primary") # {}
              /\ \A i \in CallsOf("primary") : calls[i].to = env.mail.TO_DEFAULT

C11_Witness ==
    /\ pc = "done"
    /\ formType = "contact"
    /\ env.mail.TO_DEFAULT = ""
    /\ env.mail.TO_EARLY_OFFER # ""
    /\ Len(calls) = 1
    /\ calls[1].result = "ok"
    /\ IsError(400, "unknown_formtype")

\* C12: for a recognized form type a mailbox is resolved whenever TO_DEFAULT
\* is set, also with no override set; no mailbox is resolved only when the
\* override of the form type and TO_DEFAULT are both unset, and the request
\* then ends in the unknown_formtype fault with no dispatch call.
C12_ResolutionTotal ==
    (Routed /\ formType \in Recognized) =>
        /\ env.mail.TO_DEFAULT # "" =>
              /\ to # ""
              /\ CallsOf("primary") # {}
              /\ ~IsError(400, "unknown_formtype")
        /\ to = "" =>
              /\ OverrideUnset
              /\ env.mail.TO_DEFAULT = ""
              /\ pc = "done"
              /\ IsError(400, "unknown_formtype")
              /\ CallsOf("primary") \cup CallsOf("autoreply") = {}
        /\ to # "" => ~(OverrideUnset /\ env.mail.TO_DEFAULT = "")

C12_Witness ==
    /\ Routed
    /\ formType = "fitting"
    /\ env.mail = [NoMailboxes EXCEPT !.TO_DEFAULT = "default@vb.com"]
    /\ to = "default@vb.com"
    /\ CallsOf("primary") # {}

\* C13 (as stated): a request whose body does not decode as form data ends in
\* 400 invalid_form_data with no outbound call, whatever the configuration
\* (looked at for the requests handled under an env object).
C13_Original ==
    (pc = "done" /\ req.body = "malformed" /\ env.defined) =>
        /\ IsError(400, "invalid_form_data")
        /\ calls = <<>>

\* C13 (amended): a request whose body does not decode as form data never
\* has an outbound call made or a field read; it ends in 400
\* invalid_form_data when the required configuration is complete, and in the
\* 500 configuration error otherwise, the env validation running first.
C13_MalformedBodyRejected ==
    (pc # "idle" /\ req.body = "malformed") =>
        /\ calls = <<>>
        /\ ~formParsed
        /\ to = ""
        /\ pc \in {"parsing", "done"}
        /\ (pc = "done" /\ ConfigComplete) => IsError(400, "invalid_form_data")
        /\ (pc = "done" /\ ~ConfigComplete) => response.status = 500

C13_Witness ==
    /\ pc = "done"
    /\ req.body = "malformed"
    /\ ConfigComplete
    /\ env.mail.TO_DEFAULT = ""
    /\ IsError(400, "invalid_form_data")
    /\ calls = <<>>

\* C14: under an env that lacks one of the three required keys the request
\* ends in 500 missing_env with no outbound call, so that every outbound call
\* is made with the secret and the API key set.
C14_MissingConfigFailsFast ==
    /\ (pc # "idle" /\ env.defined /\ ~ConfigComplete) =>
          /\ pc = "done"
          /\ IsError(500, "missing_env")
          /\ calls = <<>>
          /\ ~formParsed
    /\ calls # <<>> => ConfigComplete

C14_Witness ==
    /\ pc = "done"
    /\ env.TURNSTILE_SECRET_KEY = ""
    /\ env.RESEND_API_KEY # ""
    /\ env.RESEND_FROM_EMAIL # ""
    /\ req.body = "form"
    /\ req.token = "tok"
    /\ IsError(500, "missing_env")
    /\ calls = <<>>

\* C15: a request that did not ask for JSON never gets a response with a
\* details field or a JSON error body, on any path.
C15_DetailsOnlyForJson ==
    (pc = "done" /\ ~wantsJson) =>
        /\ ~response.details
        /\ response.format # "json"

\* the request completed: its primary dispatch succeeded and it is finished
Completed ==
    /\ pc = "done"
    /\ \E i \in CallsOf("primary") : calls[i].result = "ok"

\* C16: a completed request gets a JSON success body when it asked for JSON,
\* and the 303 redirect otherwise.
C16_SuccessFollowsNegotiation ==
    Completed =>
        IF wantsJson
          THEN response.format = "json" /\ response.error = "none"
          ELSE response = SuccessResponse

C18_NoRetry ==
    /\ \A op \in {"verify", "primary", "autoreply"} : Cardinality(CallsOf(op)) <= 1
    /\ Len(calls) <= 3
    /\ \A i \in CallsOf("verify") \cup CallsOf("primary") :
          calls[i].result = "failed" =>
              /\ i = Len(calls)
              /\ pc = "done"
              /\ response.status \in {400, 502}

C18_Witness ==
    /\ pc = "done"
    /\ formType = "early_offer"
    /\ Len(calls) = 2
    /\ calls[1].op = "verify"
    /\ calls[2].op = "primary"
    /\ calls[2].result = "failed"
    /\ calls[2].reply.status = 500
    /\ response.status = 502

\* C19: after a successful primary call exactly one auto-reply call is made
\* for early_offer, fitting and events; for reviews and every other formType
\* no second dispatch call is made.
C19_AutoReplyByCategory ==
    /\ formType \in {"early_offer", "fitting", "events"} =>
          /\ (\E i \in CallsOf("primary") : calls[i].result = "ok")
                => Cardinality(CallsOf("autoreply")) = 1
    /\ formType \notin {"early_offer", "fitting", "events"} =>
          /\ CallsOf("autoreply") = {}
          /\ Cardinality(CallsOf("primary")) <= 1
          /\ Completed => response = SuccessResponse

C19_Witness ==
    /\ pc = "replying"
    /\ formType = "events"
    /\ Len(calls) = 3
    /\ calls[2].op = "primary"
    /\ calls[2].result = "ok"
    /\ calls[3].op = "autoreply"
    /\ calls[3].to = email

\* C20: every auto-reply call carries the List-Unsubscribe header and no
\* primary call does.
C20_UnsubscribeOnAutoReplyOnly ==
    /\ \A i \in CallsOf("autoreply") : calls[i].unsub
    /\ \A i \in CallsOf("primary") : ~calls[i].unsub

C20_Witness ==
    /\ Len(calls) = 3
    /\ formType = "fitting"
    /\ calls[2].op = "primary"
    /\ ~calls[2].unsub
    /\ calls[3].op = "autoreply"
    /\ calls[3].unsub

\* an appointment request with an email and two preferred date/time pairs
\* whose token was verified and whose primary dispatch was accepted
C21_Case ==
    /\ formParsed
    /\ formType = "fitting"
    /\ email = "a@x.com"
    /\ req.slots = TwoPairs
    /\ \E j \in CallsOf("verify") : calls[j].result = "ok"
    /\ \E i \in CallsOf("primary") : calls[i].result = "ok"

\* the option lines of the two pairs
C21_Options ==
    << <<"  Option ", "1", ": ", "2026-04-01", " at ", "10:00">>,
       <<"  Option ", "2", ": ", "2026-04-02", " at ", "14:30">> >>

\* line l occurs in text t
HasLine(t, l) == \E k \in DOMAIN t : t[k] = l

\* C21: an appointment request with an email, a valid token and two
\* preferred date/time pairs has exactly one primary dispatch call, whose
\* body holds the lines Option 1 and Option 2 of the two pairs, has exactly
\* one auto-reply call, and ends with the success response.
C21_ScenarioA ==
    (C21_Case /\ pc = "done") =>
        /\ Cardinality(CallsOf("primary")) = 1
        /\ \A i \in CallsOf("primary") :
              /\ HasLine(calls[i].text, C21_Options[1])
              /\ HasLine(calls[i].text, C21_Options[2])
        /\ Cardinality(CallsOf("autoreply")) = 1
        /\ response = SuccessResponse

\* the values of the two secrets of the configuration
Secrets == {env.TURNSTILE_SECRET_KEY, env.RESEND_API_KEY} \ {""}

\* C22: the verification secret goes into verification calls only and the
\* email-provider key into send calls only; no response, whatever its
\* format and status, and no message text or recipient carries either value.
C22_SecretsStayWithProvider ==
    /\ \A i \in CallsOf("verify") : calls[i].credential = env.TURNSTILE_SECRET_KEY
    /\ \A i \in CallsOf("primary") \cup CallsOf("autoreply") :
          calls[i].credential = env.RESEND_API_KEY
    /\ \A i \in DOMAIN calls :
          /\ calls[i].to \notin Secrets
          /\ \A k \in DOMAIN calls[i].text :
                \A n \in DOMAIN calls[i].text[k] : calls[i].text[k][n] \notin Secrets
    /\ response.shown \cap Secrets = {}
    /\ response.msg \notin Secrets
    /\ response.error \notin Secrets

C22_Witness ==
    /\ pc = "done"
    /\ wantsJson
    /\ env.TURNSTILE_SECRET_KEY = "ts-secret"
    /\ env.RESEND_API_KEY = "re-key"
    /\ Len(calls) = 2
    /\ calls[1].credential = "ts-secret"
    /\ calls[2].credential = "re-key"
    /\ calls[2].result = "failed"
    /\ response.shown = {"500", "non_json"}

\* C23: every outbound call is made with a timeout: whenever the handler
\* waits for a provider, the pending call carries an abort signal whose
\* expiry ends the wait.
C23_EveryCallBounded ==
    /\ \A i \in DOMAIN calls : calls[i].signal # "none"
    /\ pc \in {"verifying", "sending", "replying"} =>
          calls[Len(calls)].signal = "timeout"

\* the values of the first and of the last entry of form with this key
FirstOf(key) ==
    IF Occurrences(form, key) = {} THEN ""
    ELSE form[CHOOSE i \in Occurrences(form, key) :
                 \A j \in Occurrences(form, key) : i <= j][2]
LastOf(key) ==
    IF Occurrences(form, key) = {} THEN ""
    ELSE form[CHOOSE i \in Occurrences(form, key) :
                 \A j \in Occurrences(form, key) : j <= i][2]

\* the fields, the notification body and the auto-reply body hold, for
\* every key, the value v(key) and, for formType and email, its lowercase
SeenAs(v(_), raw(_)) ==
    /\ fields.formType = toLowerCase(v("formType"))
    /\ fields.email = toLowerCase(v("email"))
    /\ fields.token = v("cf-turnstile-response")
    /\ fields.rating = v("rating")
    /\ fields.rest.firstName = v("firstName")
    /\ fields.rest.lastName = v("lastName")
    /\ fields.rest.fullName = v("fullName")
    /\ fields.rest.name = v("name")
    /\ fields.rest.phone = v("phone")
    /\ fields.rest.message = v("message")
    /\ fields.rest.source = v("source")
    /\ fields.rest.eventType = raw("eventType")
    /\ \A k \in 1..3 :
          /\ fields.slots[k].date = raw("preferredDate" \o ToString(k))
          /\ fields.slots[k].time = raw("preferredTime" \o ToString(k))
    /\ text # <<>> =>
          /\ text[1] = <<"Form Type: ", toLowerCase(v("formType"))>>
          /\ text[2] = <<"Email: ", toLowerCase(v("email"))>>
    /\ (replyText # <<>> /\ fields.formType = "fitting") =>
          /\ replyText[4] = <<"Email: ", toLowerCase(v("email"))>>
          /\ replyText[6] = <<"Dress Type: ", OrElse(raw("eventType"), "(not specified)")>>
          /\ raw("preferredDate1") # "" =>
                replyText[8] = <<"  Option ", "1", ": ", raw("preferredDate1"), " at ",
                                 OrElse(raw("preferredTime1"), "(no time)")>>

\* C24 as claimed: for every key the handler sees the trimmed value of the
\* last entry with that key, in the fields it reads and in both bodies.
C24_Original ==
    LET v(key) == trim(LastOf(key))
    IN  Extracted => SeenAs(v, v)

\* C24: for every key the handler sees the value of the first entry with
\* that key; trimmed for the fields extracted at the top, as submitted for
\* the slot fields and eventType; the bodies are composed from those values.
C24_FirstWinsTrimmed ==
    LET v(key) == trim(FirstOf(key))
        raw(key) == FirstOf(key)
    IN  Extracted => SeenAs(v, raw)

C24_Witness ==
    /\ Extracted
    /\ form = << <<"email", " B@X.com ">>, <<"email", "a@x.com">> >>
    /\ fields.email = "b@x.com"
    /\ text # <<>>

\* the send calls the provider has answered
AnsweredSends ==
    {i \in CallsOf("primary") \cup CallsOf("autoreply") :
        calls[i].result # "pending" /\ calls[i].reply.net = "ok"}

\* C25 as claimed: a send is Failed whenever the provider answers with a
\* non-success status or with a body that is empty or not JSON, whatever
\* the status.
C25_Original ==
    \A i \in AnsweredSends :
        \/ calls[i].reply.status < 200
        \/ calls[i].reply.status > 299
        \/ calls[i].reply.body \in {"non_json", "empty"}
        => calls[i].result = "failed"

\* C25: a send is Failed exactly when the fetch throws or the provider
\* answers with a non-success status; an answer with a 2xx status is Sent
\* whatever its body.  A Failed primary send ends the request with 502
\* resend_failed, whose JSON form carries the captured status and body.
C25_FailedOnStatusOnly ==
    /\ \A i \in CallsOf("primary") \cup CallsOf("autoreply") :
          calls[i].result # "pending" =>
              (calls[i].result = "failed" <=>
                  \/ calls[i].reply.net = "error"
                  \/ calls[i].reply.status < 200
                  \/ calls[i].reply.status > 299)
    /\ \A i \in CallsOf("primary") :
          calls[i].result = "failed" =>
              /\ pc = "done"
              /\ IsError(502, "resend_failed")
              /\ (wantsJson /\ calls[i].reply.net = "ok") =>
                    /\ response.details
                    /\ response.shown =
                          {ToString(calls[i].reply.status), calls[i].reply.body}

C25_Witness ==
    /\ pc = "done"
    /\ formType = "contact"
    /\ Len(calls) = 2
    /\ calls[2].op = "primary"
    /\ calls[2].reply = [net |-> "ok", status |-> 200, body |-> "empty"]
    /\ calls[2].result = "ok"
    /\ response = SuccessResponse

\* C26: validation reports one reason, in a fixed precedence: a missing
\* formType gives missing_formtype whatever else is missing; otherwise, for
\* a submission that is not exempt, a missing email gives missing_email even
\* when the token is missing too; missing_turnstile is reported only when
\* formType and email are present and the token is missing.
C26_ValidationPrecedence ==
    formParsed =>
        /\ formType = "" => pc = "done" /\ IsError(400, "missing_formtype")
        /\ (formType # "" /\ ~Exempted /\ email = "") =>
              pc = "done" /\ IsError(400, "missing_email")
        /\ IsError(400, "missing_turnstile") =>
              /\ formType # ""
              /\ email # ""
              /\ turnstileToken = ""
              /\ ~Exempted
        /\ IsError(400, "missing_email") => formType # "" /\ email = ""
        /\ IsError(400, "missing_formtype") => formType = ""

C26_Witness ==
    /\ pc = "done"
    /\ formParsed
    /\ formType = "events"
    /\ email = ""
    /\ turnstileToken = ""
    /\ IsError(400, "missing_email")
    /\ ~wantsJson

\* the slots for which the form gives a date
DatedSlots == {k \in 1..3 : FirstOf("preferredDate" \o ToString(k)) # ""}

\* the number of slot k among the slots with a date
OptionNo(k) == Cardinality({j \in DatedSlots : j <= k})

\* C27: in the appointment auto-reply the lines below "Preferred Dates &
\* Times:" are, for the slots with a date and in slot order, the lines
\* "Option N: <date> at <time>" with N = 1, 2, ... without gaps, "(no time)"
\* standing for an absent time; a slot with a time and no date has no line;
\* with no date at all the one line is "(not provided)".
C27_OptionsNumbered ==
    (replyText # <<>> /\ fields.formType = "fitting") =>
        /\ replyText[7] = <<"Preferred Dates & Times:">>
        /\ \A k \in DatedSlots :
              replyText[7 + OptionNo(k)] =
                  <<"  Option ", ToString(OptionNo(k)), ": ",
                    FirstOf("preferredDate" \o ToString(k)), " at ",
                    IF FirstOf("preferredTime" \o ToString(k)) = ""
                      THEN "(no time)"
                      ELSE FirstOf("preferredTime" \o ToString(k))>>
        /\ DatedSlots = {} => replyText[8] = <<"  (not provided)">>
        /\ LET n == IF DatedSlots = {} THEN 1 ELSE Cardinality(DatedSlots)
           IN  /\ replyText[8 + n] = <<"Additional Notes:">>
               /\ Len(replyText) = 9 + n

C27_Witness ==
    /\ form = SlotForm({1, 3}, {1, 2})
    /\ Len(replyText) = 11
    /\ replyText[8] = <<"  Option ", "1", ": ", "2026-04-01", " at ", "10:00">>
    /\ replyText[9] = <<"  Option ", "2", ": ", "2026-04-03", " at ", "(no time)">>

\* the value, or its placeholder when the value is missing
Shown(value, placeholder) == IF value = "" THEN placeholder ELSE value

\* the number of category-specific lines of the notification body
CategoryLines ==
    IF fields.formType = "reviews" /\ fields.rating # ""
      THEN IF fields.rest.source # "" THEN 2 ELSE 1
      ELSE 0

\* C28: the notification body has, in this order, the category line, the
\* email line, the name line, the phone line, the category-specific lines,
\* the message block and the three metadata lines, and nothing else; a
\* missing name, phone, message, IP, User-Agent or Referer is shown as its
\* placeholder on the line it belongs to.
C28_FixedStructure ==
    text # <<>> =>
        LET c == CategoryLines
            first == fields.rest.firstName
            last == fields.rest.lastName
        IN  /\ Len(text) = 12 + c
            /\ text[1] = <<"Form Type: ", fields.formType>>
            /\ text[2] = <<"Email: ", fields.email>>
            /\ text[3] = IF first # "" /\ last # "" THEN <<"Name: ", first, " ", last>>
                         ELSE IF first # "" THEN <<"Name: ", first>>
                         ELSE IF last # "" THEN <<"Name: ", last>>
                         ELSE <<"Name: ", "(not provided)">>
            /\ text[4] = <<"Phone: ", Shown(fields.rest.phone, "(not provided)")>>
            /\ c >= 1 => text[5] = <<"Rating: ", fields.rating, "/5">>
            /\ c = 2 => text[6] = <<"Review Source: ", fields.rest.source>>
            /\ text[5 + c] = <<"">>
            /\ text[6 + c] = <<"Message:">>
            /\ text[7 + c] = <<Shown(fields.rest.message, "(none)")>>
            /\ text[8 + c] = <<"">>
            /\ text[9 + c] = <<"Meta:">>
            /\ text[10 + c] = <<"IP: ", Shown(fields.rest.ip, "(unknown)")>>
            /\ text[11 + c] = <<"User-Agent: ", Shown(fields.rest.userAgent, "(unknown)")>>
            /\ text[12 + c] = <<"Referer: ", Shown(fields.rest.referer, "(unknown)")>>

C28_Witness ==
    /\ form = BodyForm("reviews", {"rating", "source"})
    /\ headers = [ip |-> "", userAgent |-> "Mozilla/5.0", referer |-> ""]
    /\ Len(text) = 14
    /\ text[3] = <<"Name: ", "(not provided)">>
    /\ text[4] = <<"Phone: ", "(not provided)">>
    /\ text[9] = <<"(none)">>
    /\ text[12] = <<"IP: ", "(unknown)">>
    /\ text[13] = <<"User-Agent: ", "Mozilla/5.0">>

\* C29: every auto-reply call is addressed to the submitter's email, which
\* is not empty; a request dispatched with an empty email is an exempt
\* review and has no auto-reply call.
C29_AutoReplyToSubmitter ==
    /\ \A i \in CallsOf("autoreply") :
          /\ calls[i].to = email
          /\ calls[i].to = req.email
          /\ calls[i].to # ""
    /\ (CallsOf("primary") # {} /\ email = "") =>
          /\ formType = "reviews"
          /\ CallsOf("autoreply") = {}

C29_Witness ==
    /\ pc = "replying"
    /\ formType = "early_offer"
    /\ Len(calls) = 3
    /\ calls[3].op = "autoreply"
    /\ calls[3].to = "a@x.com"
    /\ calls[3].result = "pending"

\* the first mailbox that is set in the chain of formType
ChainHead ==
    LET m == env.mail
        chain ==
            CASE formType = "early_offer" -> <<m.TO_EARLY_OFFER, m.TO_DEFAULT>>
              [] formType = "fitting" -> <<m.TO_BOOK_FITTING, m.TO_DEFAULT>>
              [] formType = "events" -> <<m.TO_EVENT_FLORAL, m.TO_DEFAULT>>
              [] formType = "reviews" -> <<m.TO_REVIEWS, m.TO_FEEDBACK, m.TO_DEFAULT>>
              [] OTHER -> <<m.TO_DEFAULT>>
        set == {n \in DOMAIN chain : chain[n] # ""}
    IN  IF set = {} THEN ""
        ELSE chain[CHOOSE n \in set : \A k \in set : n <= k]

\* C30: the primary notification goes to one of the configured mailboxes,
\* the one formType and the configuration select: the first mailbox set
\* among the override of the formType (for reviews TO_REVIEWS, then
\* TO_FEEDBACK) and TO_DEFAULT, whatever the other fields of the submission.
C30_RoutedByCategoryOnly ==
    \A i \in CallsOf("primary") :
        /\ calls[i].to # ""
        /\ calls[i].to \in {env.mail.TO_EARLY_OFFER, env.mail.TO_BOOK_FITTING,
                             env.mail.TO_EVENT_FLORAL, env.mail.TO_REVIEWS,
                             env.mail.TO_FEEDBACK, env.mail.TO_DEFAULT}
        /\ calls[i].to = ChainHead
        /\ calls[i].to = to

C30_Witness ==
    /\ pc = "done"
    /\ formType = "reviews"
    /\ email = "a@x.com"
    /\ env.mail.TO_REVIEWS = ""
    /\ env.mail.TO_FEEDBACK = "feedback@vb.com"
    /\ env.mail.TO_DEFAULT = "default@vb.com"
    /\ Len(calls) = 2
    /\ calls[2].op = "primary"
    /\ calls[2].to = "feedback@vb.com"
    /\ response = SuccessResponse

====
